---- MODULE Spec2Model ----
(***************************************************************************)
(* Model of kernel_list.h: the intrusive circular doubly-linked list.      *)
(*                                                                         *)
(* Memory is a finite set of list_head_t objects, addressed 1..NumNodes.   *)
(* Each object has the two pointer fields next and prev.  A pointer is     *)
(* either the address of one of the objects or NULL (the value of          *)
(* LIST_POISON1 and LIST_POISON2 in this build, lines 32-37).  A read or a *)
(* write through a pointer that is not the address of an object is the     *)
(* access error the header's comment on line 25 describes: it sets fault   *)
(* and the program executes nothing more.                                  *)
(*                                                                         *)
(* Every function of the header is one action that runs its body whole.    *)
(* list_for_each_entry_safe is a small process (init, test, body, step)    *)
(* whose body calls list_del on the entry it is given.                     *)
(***************************************************************************)
EXTENDS Integers, Sequences, FiniteSets, TLC

\* Number of list_head_t objects in memory.
NumNodes == 4

\* Byte offset of the list_head_t member inside the embedding structure.
Offset == 1

\* stddef.h NULL, the null pointer.
NULL == 0

\* #define LIST_POISON1 NULL
LIST_POISON1 == NULL

\* #define LIST_POISON2 NULL
LIST_POISON2 == NULL

\* Addresses of the list_head_t objects.
Nodes == 1..NumNodes

\* Values a pointer field can hold.
Ptr == Nodes \cup {NULL}

VARIABLES
    next,      \* next[p]: the field p->next
    prev,      \* prev[p]: the field p->prev
    fault,     \* TRUE once an access through an invalid pointer happened
    linked,    \* history: the nodes the caller has put in a ring (an
               \* initialised node alone is a ring of size 1) and not since
               \* removed with list_del or list_replace
    last,      \* history: the call that ran last, [op, a, b, ret]
    pc,        \* position of the list_for_each_entry_safe loop
    thead,     \* the loop's head argument
    pos,       \* the loop's pos (address of an entry)
    n,         \* the loop's n (address of an entry)
    ring0,     \* history: forward sequence of thead's ring at loop entry
    visited,   \* history: the entries the loop body ran with, in order
    next0,     \* history: the next fields in the initial state
    prev0,     \* history: the prev fields in the initial state
    calls,     \* history: the calls made since the initial state, in order
    kind,      \* the plain loop that runs: "raw" (list_for_each) or
               \* "entry" (list_for_each_entry)
    body,      \* what the body of the plain loop does: "none" or "del"
    off,       \* offsetof(type, member) of the plain typed loop
    wpc,       \* position of the second thread inside its call
    wop,       \* the call the second thread makes, [op, a, b, ret]
    wprev,     \* the second thread's prev_node
    wnext      \* the second thread's next_node

\* the variables of the sequential calls and of the removal-safe loop
corevars == <<next, prev, fault, linked, last, pc, thead, pos, n, ring0, visited>>
loopvars == <<pc, thead, pos, n, ring0, visited>>

\* the variables of the plain loops, of the second thread and of the
\* call history
histvars == <<next0, prev0, calls>>
plainvars == <<kind, body, off>>
wvars == <<wpc, wop, wprev, wnext>>
xvars == <<next0, prev0, calls, kind, body, off, wpc, wop, wprev, wnext>>

vars == <<next, prev, fault, linked, last, pc, thead, pos, n, ring0, visited,
          next0, prev0, calls, kind, body, off, wpc, wop, wprev, wnext>>

----------------------------------------------------------------------------
(* Memory accesses.  A machine state m is [next, prev, fault].             *)

Mem == [next |-> next, prev |-> prev, fault |-> fault]

\* p is the address of an object
Valid(p) == p \in Nodes

\* the access p->field: faults when p is no object's address
Deref(m, p) == IF m.fault \/ Valid(p) THEN m ELSE [m EXCEPT !.fault = TRUE]

\* value read by p->next (meaningless once the access faulted)
LoadNext(m, p) == IF Valid(p) THEN m.next[p] ELSE NULL

\* value read by p->prev
LoadPrev(m, p) == IF Valid(p) THEN m.prev[p] ELSE NULL

\* p->next = v
StoreNext(m, p, v) ==
    IF m.fault THEN m
    ELSE IF ~Valid(p) THEN [m EXCEPT !.fault = TRUE]
    ELSE [m EXCEPT !.next[p] = v]

\* p->prev = v
StorePrev(m, p, v) ==
    IF m.fault THEN m
    ELSE IF ~Valid(p) THEN [m EXCEPT !.fault = TRUE]
    ELSE [m EXCEPT !.prev[p] = v]

----------------------------------------------------------------------------
(* The functions of the header, as transformers of the machine state.      *)

\* INIT_LIST_HEAD with the second store dropped
INIT_LIST_HEAD_NoPrev(m, list) == StoreNext(m, list, list)

INIT_LIST_HEAD(m, list) ==
    LET m1 == StoreNext(m, list, list)
        m2 == StorePrev(m1, list, list)
    IN m2

\* __list_add with the last store (prev_node->next) dropped
list_add_NoPrevNext(m, new_node, prev_node, next_node) ==
    LET m1 == StorePrev(m, next_node, new_node)
        m2 == StoreNext(m1, new_node, next_node)
        m3 == StorePrev(m2, new_node, prev_node)
    IN m3

\* __list_add with the first store (next_node->prev) dropped
list_add_NoNextPrev(m, new_node, prev_node, next_node) ==
    LET m2 == StoreNext(m, new_node, next_node)
        m3 == StorePrev(m2, new_node, prev_node)
        m4 == StoreNext(m3, prev_node, new_node)
    IN m4

\* __list_add with the third store (new_node->prev) dropped
list_add_KeepsNewPrev(m, new_node, prev_node, next_node) ==
    LET m1 == StorePrev(m, next_node, new_node)
        m2 == StoreNext(m1, new_node, next_node)
        m4 == StoreNext(m2, prev_node, new_node)
    IN m4

\* __list_add with a fifth store, prev_node->prev = new_node
list_add_ExtraStore(m, new_node, prev_node, next_node) ==
    LET m1 == StorePrev(m, next_node, new_node)
        m2 == StoreNext(m1, new_node, next_node)
        m3 == StorePrev(m2, new_node, prev_node)
        m4 == StoreNext(m3, prev_node, new_node)
        m5 == StorePrev(m4, prev_node, new_node)
    IN m5

__list_add(m, new_node, prev_node, next_node) ==
    LET m1 == StorePrev(m, next_node, new_node)
        m2 == StoreNext(m1, new_node, next_node)
        m3 == StorePrev(m2, new_node, prev_node)
        m4 == StoreNext(m3, prev_node, new_node)
    IN m4

\* list_add that inserts before the head instead of after it
list_add_AtTail(m, new_node, head_node) ==
    __list_add(Deref(m, head_node), new_node, LoadPrev(m, head_node), head_node)

list_add(m, new_node, head_node) ==
    __list_add(Deref(m, head_node), new_node, head_node, LoadNext(m, head_node))

\* list_add_tail that inserts after the head instead of before it
list_add_tail_AtFront(m, new_node, head_node) ==
    __list_add(Deref(m, head_node), new_node, head_node, LoadNext(m, head_node))

list_add_tail(m, new_node, head_node) ==
    __list_add(Deref(m, head_node), new_node, LoadPrev(m, head_node), head_node)

\* __list_del with the second store dropped
list_del_NoPrevNext(m, prev_node, next_node) ==
    StorePrev(m, next_node, prev_node)

__list_del(m, prev_node, next_node) ==
    LET m1 == StorePrev(m, next_node, prev_node)
        m2 == StoreNext(m1, prev_node, next_node)
    IN m2

\* list_del that leaves the removed node's fields as they were
list_del_NoPoison(m, entry_node) ==
    __list_del(Deref(m, entry_node),
               LoadPrev(m, entry_node), LoadNext(m, entry_node))

\* list_del that unlinks nothing when the poison is met, without faulting
list_del_Silent(m, entry_node) ==
    IF LoadNext(m, entry_node) = LIST_POISON1 THEN m
    ELSE LET m1 == __list_del(Deref(m, entry_node),
                       LoadPrev(m, entry_node), LoadNext(m, entry_node))
             m2 == StoreNext(m1, entry_node, LIST_POISON1)
             m3 == StorePrev(m2, entry_node, LIST_POISON2)
         IN m3

\* list_del that passes entry_node->next and entry_node->prev exchanged
list_del_Swapped(m, entry_node) ==
    LET m1 == __list_del(Deref(m, entry_node),
                         LoadNext(m, entry_node), LoadPrev(m, entry_node))
        m2 == StoreNext(m1, entry_node, LIST_POISON1)
        m3 == StorePrev(m2, entry_node, LIST_POISON2)
    IN m3

list_del(m, entry_node) ==
    LET m1 == __list_del(Deref(m, entry_node),
                         LoadPrev(m, entry_node), LoadNext(m, entry_node))
        m2 == StoreNext(m1, entry_node, LIST_POISON1)
        m3 == StorePrev(m2, entry_node, LIST_POISON2)
    IN m3

\* return head_node->next == head_node
list_empty(m, head_node) == LoadNext(m, head_node) = head_node

\* list_replace that forgets to redirect the successor's prev
list_replace_NoNextPrev(m, old_node, new_node) ==
    LET m1 == StoreNext(Deref(m, old_node), new_node, LoadNext(m, old_node))
        m3 == StorePrev(Deref(m1, old_node), new_node, LoadPrev(m1, old_node))
        m4 == StoreNext(Deref(m3, new_node), LoadPrev(m3, new_node), new_node)
    IN m4

\* list_replace that also re-initialises old_node
list_replace_Reinit(m, old_node, new_node) ==
    LET m1 == StoreNext(Deref(m, old_node), new_node, LoadNext(m, old_node))
        m2 == StorePrev(Deref(m1, new_node), LoadNext(m1, new_node), new_node)
        m3 == StorePrev(Deref(m2, old_node), new_node, LoadPrev(m2, old_node))
        m4 == StoreNext(Deref(m3, new_node), LoadPrev(m3, new_node), new_node)
    IN INIT_LIST_HEAD(m4, old_node)

list_replace(m, old_node, new_node) ==
    LET \* new_node->next = old_node->next;
        m1 == StoreNext(Deref(m, old_node), new_node, LoadNext(m, old_node))
        \* new_node->next->prev = new_node;
        m2 == StorePrev(Deref(m1, new_node), LoadNext(m1, new_node), new_node)
        \* new_node->prev = old_node->prev;
        m3 == StorePrev(Deref(m2, old_node), new_node, LoadPrev(m2, old_node))
        \* new_node->prev->next = new_node;
        m4 == StoreNext(Deref(m3, new_node), LoadPrev(m3, new_node), new_node)
    IN m4

\* list_replace_init without the INIT_LIST_HEAD(old_node)
list_replace_init_NoInit(m, old_node, new_node) ==
    list_replace(m, old_node, new_node)

list_replace_init(m, old_node, new_node) ==
    INIT_LIST_HEAD(list_replace(m, old_node, new_node), old_node)

\* container_of(ptr, type, member): (char *)ptr - offsetof(type, member)
container_of(ptr) == ptr - Offset

\* container_of with the subtraction of the member's offset left out
container_of_NoOffset(ptr, k) == ptr

\* container_of(ptr, type, member) for a type whose member is at offset k
container_of_at(ptr, k) == ptr - k

\* &pos->member for a type whose member is at offset k
member_at(entry, k) == entry + k

\* list_entry(ptr, type, member)
list_entry(ptr) == container_of(ptr)

\* &pos->member
member(entry) == entry + Offset

\* list_first_entry(ptr, type, member): list_entry((ptr)->next, ...)
list_first_entry(m, ptr) == list_entry(LoadNext(m, ptr))

\* list_next_entry(pos, member): list_entry((pos)->member.next, ...)
list_next_entry(m, entry) == list_entry(LoadNext(m, member(entry)))

----------------------------------------------------------------------------
(* Walks, as list_for_each does them: from head's neighbour, along one     *)
(* field, until head comes round again.  Bad marks a walk that met a       *)
(* pointer to no object or did not come back to head.                      *)

Bad == -1

RECURSIVE Walk(_, _, _, _)
Walk(f, head, x, fuel) ==
    IF x = head THEN <<>>
    ELSE IF x \notin Nodes \/ fuel = 0 THEN <<Bad>>
    ELSE <<x>> \o Walk(f, head, f[x], fuel - 1)

\* the sequence list_for_each(pos, head) yields when the next fields are f
FwdOf(f, head) == Walk(f, head, f[head], NumNodes)

\* the sequence list_for_each(pos, head) yields
Fwd(head) == FwdOf(next, head)

\* the same walk along prev
Bwd(head) == FwdOf(prev, head)

----------------------------------------------------------------------------
(* The calls a program makes.  The header checks nothing, so the guards    *)
(* are the callers' contract: a node that is inserted is not in a ring     *)
(* with other nodes, a node that is removed, replaced or used as head is   *)
(* in a ring.  The one misuse that is modelled is the use of a node that   *)
(* list_del has removed: its fields hold the poison.  A node that          *)
(* list_replace has put out of its ring keeps stale pointers into it; the  *)
(* programs modelled initialise or insert such a node again before they    *)
(* call list_replace the next time, so at most one node is stale at once.  *)

\* x is a ring of size 1
Alone(x) == next[x] = x /\ prev[x] = x

\* x may be inserted: it is in no ring with other nodes
Insertable(x) == x \notin linked \/ Alone(x)

\* x was removed by list_del and not initialised or inserted since
Removed(x) == x \notin linked /\ next[x] = LIST_POISON1 /\ prev[x] = LIST_POISON2

\* x may be passed as a node that is in a ring (or, misused, after removal)
Usable(x) == x \in linked \/ Removed(x)

\* the nodes list_replace has put out of a ring, their fields left as they were
Stale == {x \in Nodes : x \notin linked /\ ~Removed(x)}

Call(op, a, b, ret) == [op |-> op, a |-> a, b |-> b, ret |-> ret]

\* the call ends in machine state m; l is the new set of ring members
Commit(m, l, call) ==
    /\ next' = m.next
    /\ prev' = m.prev
    /\ fault' = m.fault
    /\ linked' = IF m.fault THEN linked ELSE l
    /\ last' = call

Idle == ~fault /\ pc = "idle"

DoInit(x) ==
    /\ Idle
    /\ Insertable(x)
    /\ Commit(INIT_LIST_HEAD(Mem, x), linked \cup {x},
              Call("INIT_LIST_HEAD", x, NULL, FALSE))
    /\ UNCHANGED loopvars

DoAdd(x, h) ==
    /\ Idle
    /\ x # h
    /\ Insertable(x)
    /\ Usable(h)
    /\ Commit(list_add(Mem, x, h), linked \cup {x},
              Call("list_add", x, h, FALSE))
    /\ UNCHANGED loopvars

DoAddTail(x, h) ==
    /\ Idle
    /\ x # h
    /\ Insertable(x)
    /\ Usable(h)
    /\ Commit(list_add_tail(Mem, x, h), linked \cup {x},
              Call("list_add_tail", x, h, FALSE))
    /\ UNCHANGED loopvars

DoDel(x) ==
    /\ Idle
    /\ Usable(x)
    /\ Commit(list_del(Mem, x), linked \ {x},
              Call("list_del", x, NULL, FALSE))
    /\ UNCHANGED loopvars

DoEmpty(h) ==
    /\ Idle
    /\ Usable(h)
    /\ Commit(Deref(Mem, h), linked,
              Call("list_empty", h, NULL, list_empty(Mem, h)))
    /\ UNCHANGED loopvars

DoReplace(old, new) ==
    /\ Idle
    /\ old # new
    /\ Usable(old)
    /\ Insertable(new)
    /\ Stale \subseteq {new}
    /\ Commit(list_replace(Mem, old, new), (linked \ {old}) \cup {new},
              Call("list_replace", old, new, FALSE))
    /\ UNCHANGED loopvars

DoReplaceInit(old, new) ==
    /\ Idle
    /\ old # new
    /\ Usable(old)
    /\ Insertable(new)
    /\ Commit(list_replace_init(Mem, old, new), linked \cup {new},
              Call("list_replace_init", old, new, FALSE))
    /\ UNCHANGED loopvars

----------------------------------------------------------------------------
(* list_for_each_entry_safe(pos, n, head, member) { list_del(&pos->member) } *)

\* for (pos = list_first_entry(head, ...), n = list_next_entry(pos, member);
LoopStart(h) ==
    /\ Idle
    /\ Usable(h)
    /\ LET p  == list_first_entry(Mem, h)
           m1 == Deref(Deref(Mem, h), member(p))
       IN /\ pos' = p
          /\ n' = list_next_entry(Mem, p)
          /\ fault' = m1.fault
    /\ pc' = "test"
    /\ thead' = h
    /\ ring0' = Fwd(h)
    /\ visited' = <<>>
    /\ last' = Call("list_for_each_entry_safe", h, NULL, FALSE)
    /\ UNCHANGED <<next, prev, linked>>

\* &pos->member != (head);
LoopTest ==
    /\ ~fault
    /\ pc = "test"
    /\ pc' = IF member(pos) # thead THEN "body" ELSE "done"
    /\ UNCHANGED <<next, prev, fault, linked, last, thead, pos, n, ring0, visited>>

\* the loop body: list_del(&pos->member)
LoopBody ==
    /\ ~fault
    /\ pc = "body"
    /\ Commit(list_del(Mem, member(pos)), linked \ {member(pos)},
              Call("list_del", member(pos), NULL, FALSE))
    /\ visited' = Append(visited, pos)
    /\ pc' = "step"
    /\ UNCHANGED <<thead, pos, n, ring0>>

\* the step of list_for_each_entry: pos = list_next_entry(pos, member)
LoopStep_Plain ==
    /\ ~fault
    /\ pc = "step"
    /\ pos' = list_next_entry(Mem, pos)
    /\ fault' = Deref(Mem, member(pos)).fault
    /\ pc' = "test"
    /\ UNCHANGED <<next, prev, linked, last, thead, n, ring0, visited>>

\* pos = n, n = list_next_entry(n, member))
LoopStep ==
    /\ ~fault
    /\ pc = "step"
    /\ pos' = n
    /\ n' = list_next_entry(Mem, n)
    /\ fault' = Deref(Mem, member(n)).fault
    /\ pc' = "test"
    /\ UNCHANGED <<next, prev, linked, last, thead, ring0, visited>>

\* the loop is left and the caller goes on
LoopExit ==
    /\ ~fault
    /\ pc = "done"
    /\ pc' = "idle"
    /\ thead' = NULL
    /\ pos' = NULL
    /\ n' = NULL
    /\ ring0' = <<>>
    /\ visited' = <<>>
    /\ UNCHANGED <<next, prev, fault, linked, last>>

----------------------------------------------------------------------------

\* no plain loop runs, no second thread runs, no call was made yet
InitRest ==
    /\ next0 = next
    /\ prev0 = prev
    /\ calls = <<>>
    /\ kind = "none"
    /\ body = "none"
    /\ off = 0
    /\ wpc = "idle"
    /\ wop = Call("none", NULL, NULL, FALSE)
    /\ wprev = NULL
    /\ wnext = NULL

\* a step A of the sequential program: nothing else moves
Only(A) == A /\ UNCHANGED xvars

\* every node was initialised: LIST_HEAD(name) or INIT_LIST_HEAD(&name)
Init ==
    /\ next = [x \in Nodes |-> x]
    /\ prev = [x \in Nodes |-> x]
    /\ fault = FALSE
    /\ linked = Nodes
    /\ last = Call("LIST_HEAD", NULL, NULL, FALSE)
    /\ pc = "idle"
    /\ thead = NULL
    /\ pos = NULL
    /\ n = NULL
    /\ ring0 = <<>>
    /\ visited = <<>>
    /\ InitRest

Next ==
    \/ \E x \in Nodes : Only(DoInit(x))
    \/ \E x, h \in Nodes : Only(DoAdd(x, h))
    \/ \E x, h \in Nodes : Only(DoAddTail(x, h))
    \/ \E x \in Nodes : Only(DoDel(x))
    \/ \E h \in Nodes : Only(DoEmpty(h))
    \/ \E old, new \in Nodes : Only(DoReplace(old, new))
    \/ \E old, new \in Nodes : Only(DoReplaceInit(old, new))
    \/ \E h \in Nodes : Only(LoopStart(h))
    \/ Only(LoopTest)
    \/ Only(LoopBody)
    \/ Only(LoopStep)
    \/ Only(LoopExit)

Spec == Init /\ [][Next]_vars

\* the loop is sequential code: once entered it keeps executing
Loop == Only(LoopTest) \/ Only(LoopBody) \/ Only(LoopStep)

FairSpec == Spec /\ WF_vars(Loop)

TypeOK ==
    /\ next \in [Nodes -> Ptr]
    /\ prev \in [Nodes -> Ptr]
    /\ fault \in BOOLEAN
    /\ linked \subseteq Nodes
    /\ pc \in {"idle", "test", "body", "step", "done"}

----------------------------------------------------------------------------
(* Helpers of the properties.  A call f(a, b) records itself in last, so a  *)
(* step that is the call f(a, b) has last'.a = a and last'.b = b: the       *)
(* properties quantify over these two values only.                         *)

\* the elements of a sequence
Range(s) == {s[i] : i \in DOMAIN s}

\* s with every occurrence of x deleted
Without(s, x) == SelectSeq(s, LAMBDA y : y # x)

\* s with x put in place of every occurrence of y
Subst(s, y, x) == [i \in DOMAIN s |-> IF s[i] = y THEN x ELSE s[i]]

\* the entries that embed the Links of s
Entries(s) == [i \in DOMAIN s |-> list_entry(s[i])]

\* x.next.prev == x and x.prev.next == x, for the fields f (next) and g (prev)
Closed(f, g, x) ==
    /\ f[x] \in Nodes
    /\ g[x] \in Nodes
    /\ g[f[x]] = x
    /\ f[g[x]] = x

\* a completed list_del(x), called directly or as the body of the loop
Step_list_del(x) == DoDel(x) \/ (LoopBody /\ member(pos) = x)

----------------------------------------------------------------------------
\* C1: in every state reached by completed calls that respect their
\* preconditions (no fault), every node x that is in a ring has its two
\* neighbours in a ring as well, and x.next.prev == x and x.prev.next == x.
C1_RingInvariant ==
    ~fault => \A x \in linked :
                  /\ Closed(next, prev, x)
                  /\ next[x] \in linked
                  /\ prev[x] \in linked

\* C1 witness: list_replace has completed and left a ring of at least three
\* nodes, so insertions and a replacement have acted on it.
C1_Witness ==
    /\ ~fault
    /\ last.op = "list_replace"
    /\ Len(Fwd(last.b)) >= 2
    /\ Bad \notin Range(Fwd(last.b))
    /\ last.a \in Stale

----------------------------------------------------------------------------
\* the loop was entered on a well-formed ring
LoopOnRing == pc # "idle" /\ Bad \notin Range(ring0)

\* C2: list_for_each_entry_safe over a well-formed ring of N entries, N >= 0,
\* with list_del(&pos->member) as its body: it never faults, the body runs
\* with the entries of the ring in forward order, none skipped and none
\* twice, the loop ends, and when it has ended the body has run N times and
\* head.next == head.prev == head.
C2_SafeTraversal ==
    /\ [](LoopOnRing =>
            /\ ~fault
            /\ Len(visited) <= Len(ring0)
            /\ \A i \in DOMAIN visited : visited[i] = Entries(ring0)[i]
            /\ Cardinality(Range(visited)) = Len(visited)
            /\ pc = "done" =>
                  /\ visited = Entries(ring0)
                  /\ next[thead] = thead
                  /\ prev[thead] = thead)
    /\ (LoopOnRing /\ pc # "done") ~> (pc = "done")

\* C2 witness: the loop has ended after its body removed three entries.
C2_Witness ==
    /\ ~fault
    /\ pc = "done"
    /\ Len(visited) = 3
    /\ visited = Entries(ring0)

----------------------------------------------------------------------------
\* C3: list_del(x) on an entry x of a ring (x has a neighbour other than
\* itself) makes x's former neighbours adjacent to each other, and from every
\* other node h of a ring the forward walk afterwards is the walk before with
\* x deleted: one shorter when x was on it, the other entries in their order.
C3_DelUnlinks ==
    [][\A x \in {last'.a} \cap Nodes :
         (Step_list_del(x) /\ x \in linked /\ ~Alone(x)) =>
             /\ ~fault'
             /\ next'[prev[x]] = next[x]
             /\ prev'[next[x]] = prev[x]
             /\ \A h \in linked \ {x} :
                   /\ FwdOf(next', h) = Without(Fwd(h), x)
                   /\ x \in Range(Fwd(h)) =>
                          Len(FwdOf(next', h)) = Len(Fwd(h)) - 1
                   /\ Bad \notin Range(FwdOf(next', h))]_vars

\* C3 witness: list_del has removed an entry from between two other entries
\* of a ring that still has a head and two entries.
C3_Witness ==
    /\ ~fault
    /\ last.op = "list_del"
    /\ \E h \in linked : Len(Fwd(h)) >= 2 /\ Bad \notin Range(Fwd(h))

----------------------------------------------------------------------------
\* C4: after list_add(x, h) on a ring, h.next == x; after list_add_tail(x, h),
\* h.prev == x; the memory list_add leaves is the one
\* __list_add(x, h, h.next) leaves, and list_add_tail's is the one
\* __list_add(x, h.prev, h) leaves.
C4_AddFrontBack ==
    [][\A x \in {last'.a} \cap Nodes, h \in {last'.b} \cap Nodes :
         /\ (DoAdd(x, h) /\ h \in linked) =>
               /\ ~fault'
               /\ next'[h] = x
               /\ next' = __list_add(Mem, x, h, next[h]).next
               /\ prev' = __list_add(Mem, x, h, next[h]).prev
         /\ (DoAddTail(x, h) /\ h \in linked) =>
               /\ ~fault'
               /\ prev'[h] = x
               /\ next' = __list_add(Mem, x, prev[h], h).next
               /\ prev' = __list_add(Mem, x, prev[h], h).prev]_vars

\* C4 witness: list_add has put a node first in a ring that already had an
\* entry, so the first and the last entry differ.
C4_Witness ==
    /\ ~fault
    /\ last.op = "list_add"
    /\ next[last.b] = last.a
    /\ prev[last.b] # last.a

----------------------------------------------------------------------------
\* C5: list_add_tail(x, h) appends x to the forward walk from h and leaves
\* the entries that were there in their order; the prev-walk from h is then x
\* followed by the earlier prev-walk.  (By induction, list_add_tail of
\* n1..nk on an empty head gives n1..nk forward and nk..n1 backward.)
C5_AddTailFifo ==
    [][\A x \in {last'.a} \cap Nodes, h \in {last'.b} \cap Nodes :
         (DoAddTail(x, h) /\ h \in linked) =>
             /\ FwdOf(next', h) = Append(Fwd(h), x)
             /\ FwdOf(prev', h) = <<x>> \o Bwd(h)]_vars

\* C5 witness: list_add_tail has appended the third entry to a head: the
\* forward walk has three entries, the last is the new one, and the prev-walk
\* is its reverse.
C5_Witness ==
    /\ ~fault
    /\ last.op = "list_add_tail"
    /\ LET s == Fwd(last.b)
           t == Bwd(last.b)
       IN /\ Len(s) = 3
          /\ s[3] = last.a
          /\ t = <<s[3], s[2], s[1]>>

----------------------------------------------------------------------------
\* C6: list_replace(old, new), old in a ring (alone in it or not), new not in
\* it: from every other node h of a ring the forward walk afterwards is the
\* walk before with new in old's place; the walk from new is the walk there
\* was from old; and new.next.prev == new and new.prev.next == new.
C6_ReplacePosition ==
    [][\A old \in {last'.a} \cap Nodes, new \in {last'.b} \cap Nodes :
         (DoReplace(old, new) /\ old \in linked) =>
             /\ ~fault'
             /\ \A h \in linked \ {old, new} :
                   FwdOf(next', h) = Subst(Fwd(h), old, new)
             /\ FwdOf(next', new) = Fwd(old)
             /\ Closed(next', prev', new)
             /\ Closed(next', prev', next'[new])
             /\ Closed(next', prev', prev'[new])]_vars

\* C6 witness: list_replace has put new between two other nodes of a ring.
C6_Witness ==
    /\ ~fault
    /\ last.op = "list_replace"
    /\ next[last.b] # last.b
    /\ next[last.b] # prev[last.b]

----------------------------------------------------------------------------
----------------------------------------------------------------------------
\* C8: after list_replace_init(old, new), old.next == old.prev == old and
\* list_empty(old) is true, no other node of a ring points at old, and a
\* list_add or list_add_tail of old that follows puts old in the ring of its
\* head with the ring invariant kept.
C8_ReplaceInit ==
    /\ [][\A old \in {last'.a} \cap Nodes, new \in {last'.b} \cap Nodes :
            (DoReplaceInit(old, new) /\ old \in linked) =>
                /\ ~fault'
                /\ next'[old] = old
                /\ prev'[old] = old
                /\ list_empty([next |-> next', prev |-> prev',
                               fault |-> fault'], old)
                /\ \A y \in linked' \ {old} :
                      next'[y] # old /\ prev'[y] # old
                /\ Closed(next', prev', new)
                /\ Insertable(old)']_vars
    /\ [][\A x \in {last'.a} \cap Nodes, h \in {last'.b} \cap Nodes :
            (/\ last.op = "list_replace_init"
             /\ last.a = x
             /\ h \in linked
             /\ DoAdd(x, h) \/ DoAddTail(x, h)) =>
                /\ ~fault'
                /\ C1_RingInvariant'
                /\ x \in Range(FwdOf(next', h))]_vars

\* C8 witness: list_replace_init has put new between two other nodes of a
\* ring and left old alone.
C8_Witness ==
    /\ ~fault
    /\ last.op = "list_replace_init"
    /\ Alone(last.a)
    /\ next[last.b] # last.b
    /\ next[last.b] # prev[last.b]

----------------------------------------------------------------------------
\* C9: after list_del(x), x.next is LIST_POISON1 and x.prev is LIST_POISON2,
\* neither is the address of a node, and no node of a ring points at x.
C9_DelPoisons ==
    (last.op = "list_del" /\ ~fault) =>
        LET x == last.a
        IN /\ next[x] = LIST_POISON1
           /\ prev[x] = LIST_POISON2
           /\ ~Valid(next[x])
           /\ ~Valid(prev[x])
           /\ x \notin linked
           /\ \A y \in linked : next[y] # x /\ prev[y] # x

\* C9 witness: list_del has removed an entry from a ring that still has a
\* head and an entry.
C9_Witness ==
    /\ ~fault
    /\ last.op = "list_del"
    /\ Removed(last.a)
    /\ \E h \in linked : Len(Fwd(h)) = 1

----------------------------------------------------------------------------
\* every node of s but those of keep has the fields it had
FrameBut(keep) ==
    \A y \in linked \ keep : next'[y] = next[y] /\ prev'[y] = prev[y]

----------------------------------------------------------------------------
(* Programs that start from any well-formed ring.  The head is the node    *)
(* declared with LIST_HEAD; its entries are any nodes in any order; every  *)
(* other node is either initialised and alone or was removed by list_del.  *)

\* LIST_HEAD(name): the node that is the head
ListHead == 1

\* the orders in which nodes can be the entries of the head
Orders ==
    {s \in UNION {[1..k -> Nodes \ {ListHead}] : k \in 0..(NumNodes - 1)} :
        \A i, j \in DOMAIN s : i # j => s[i] # s[j]}

\* position of x in the sequence c
IndexOf(c, x) == CHOOSE i \in DOMAIN c : c[i] = x

\* the head has the entries s; the nodes of P hold the poison
RingState(s, P) ==
    LET c == <<ListHead>> \o s
        k == Len(c)
    IN /\ next = [x \in Nodes |->
                    IF x \in Range(c) THEN c[(IndexOf(c, x) % k) + 1]
                    ELSE IF x \in P THEN LIST_POISON1 ELSE x]
       /\ prev = [x \in Nodes |->
                    IF x \in Range(c) THEN c[((IndexOf(c, x) + k - 2) % k) + 1]
                    ELSE IF x \in P THEN LIST_POISON2 ELSE x]
       /\ linked = Nodes \ P

InitRings ==
    /\ \E s \in Orders :
          \E P \in SUBSET (Nodes \ ({ListHead} \cup Range(s))) : RingState(s, P)
    /\ fault = FALSE
    /\ last = Call("LIST_HEAD", NULL, NULL, FALSE)
    /\ pc = "idle"
    /\ thead = NULL
    /\ pos = NULL
    /\ n = NULL
    /\ ring0 = <<>>
    /\ visited = <<>>
    /\ InitRest

----------------------------------------------------------------------------
(* Two calls in a row, from any well-formed ring, with their history.      *)

\* a call A of a program that makes at most two calls
SeqStep(A) ==
    /\ Len(calls) < 2
    /\ A
    /\ calls' = Append(calls, last')
    /\ UNCHANGED <<next0, prev0, kind, body, off, wpc, wop, wprev, wnext>>

SeqNext ==
    \/ \E x \in Nodes : SeqStep(DoInit(x))
    \/ \E x, h \in Nodes : SeqStep(DoAdd(x, h))
    \/ \E x, h \in Nodes : SeqStep(DoAddTail(x, h))
    \/ \E x \in Nodes : SeqStep(DoDel(x))
    \/ \E h \in Nodes : SeqStep(DoEmpty(h))
    \/ \E old, new \in Nodes : SeqStep(DoReplace(old, new))
    \/ \E old, new \in Nodes : SeqStep(DoReplaceInit(old, new))

SeqSpec == InitRings /\ [][SeqNext]_vars

\* the two calls made were f(a, ...) and then g(a, ...)
TwoCalls(f, g) ==
    /\ Len(calls) = 2
    /\ calls[1].op = f
    /\ calls[2].op = g
    /\ calls[2].a = calls[1].a

----------------------------------------------------------------------------
\* C11: list_add_tail(x, h) on a well-formed ring, x not in it, followed by
\* list_del(x): every node other than x has the next and the prev it had
\* before the list_add_tail; a head that was empty is empty again.
C11_AddTailDelRoundTrip ==
    (TwoCalls("list_add_tail", "list_del") /\ calls[1].b \in Nodes
        /\ next0[calls[1].b] # LIST_POISON1) =>
        LET x == calls[1].a
            h == calls[1].b
        IN /\ ~fault
           /\ \A y \in Nodes \ {x} : next[y] = next0[y] /\ prev[y] = prev0[y]
           /\ next0[h] = h => (next[h] = h /\ prev[h] = h)

\* C11 witness: the round trip was made on a head with two entries, and the
\* walk from the head has these two entries again.
C11_Witness ==
    /\ TwoCalls("list_add_tail", "list_del")
    /\ ~fault
    /\ Len(Fwd(calls[1].b)) = 2
    /\ Bad \notin Range(Fwd(calls[1].b))
    /\ next0[calls[1].a] = calls[1].a

----------------------------------------------------------------------------
\* the memory in which x.next is v1 and x.prev is v2
WithFields(x, v1, v2) ==
    [next |-> [next EXCEPT ![x] = v1],
     prev |-> [prev EXCEPT ![x] = v2],
     fault |-> fault]

\* the memory after the step
MemAfter == [next |-> next', prev |-> prev', fault |-> fault']

\* C13: LIST_HEAD_INIT leaves every node with next == prev == itself and
\* list_empty true; INIT_LIST_HEAD(x) leaves x.next == x.prev == x whatever
\* the two fields held before, and list_empty(x) is then true; list_empty(h)
\* returns true exactly when h.next == h and stores nothing.
C13_InitEmpty ==
    /\ \A x \in Nodes : Alone(x) /\ list_empty(Mem, x)
    /\ [][\A x \in {last'.a} \cap Nodes :
            /\ DoInit(x) =>
                  /\ ~fault'
                  /\ next'[x] = x
                  /\ prev'[x] = x
                  /\ list_empty(MemAfter, x)
                  /\ \A v1, v2 \in Ptr :
                        LET m == INIT_LIST_HEAD(WithFields(x, v1, v2), x)
                        IN m.next = next' /\ m.prev = prev'
            /\ DoEmpty(x) =>
                  /\ last'.ret = (next[x] = x)
                  /\ next' = next
                  /\ prev' = prev
                  /\ ~fault']_vars

\* C13 witness: INIT_LIST_HEAD has initialised a node, which is now alone and
\* empty, while another head has two entries.
C13_Witness ==
    /\ ~fault
    /\ last.op = "INIT_LIST_HEAD"
    /\ Alone(last.a)
    /\ list_empty(Mem, last.a)
    /\ \E h \in linked : Len(Fwd(h)) >= 2 /\ Bad \notin Range(Fwd(h))

----------------------------------------------------------------------------
\* the fields the step changes, as <<node, field>>
Changed ==
    {<<y, "next">> : y \in {z \in Nodes : next'[z] # next[z]}}
        \cup {<<y, "prev">> : y \in {z \in Nodes : prev'[z] # prev[z]}}

\* both fields of the nodes of S
FieldsOf(S) == {<<y, "next">> : y \in S} \cup {<<y, "prev">> : y \in S}

\* C15: __list_add(new, prev, next) stores into next.prev, new.next,
\* new.prev and prev.next and into no other field; list_del(x) changes only
\* x's fields, x.prev.next and x.next.prev; list_replace and
\* list_replace_init change only fields of old, of new and of old's two
\* neighbours.  Every other field of every node, in the same ring or in
\* another, keeps its value.
C15_Frame ==
    [][\A a \in {last'.a} \cap Nodes :
         /\ (Step_list_del(a) /\ a \in linked) =>
               Changed \subseteq {<<a, "next">>, <<a, "prev">>,
                                  <<prev[a], "next">>, <<next[a], "prev">>}
         /\ \A b \in {last'.b} \cap Nodes :
               /\ (DoAdd(a, b) /\ b \in linked) =>
                     /\ Changed \subseteq {<<next[b], "prev">>, <<a, "next">>,
                                           <<a, "prev">>, <<b, "next">>}
                     /\ prev'[next[b]] = a
                     /\ next'[a] = next[b]
                     /\ prev'[a] = b
                     /\ next'[b] = a
               /\ (DoAddTail(a, b) /\ b \in linked) =>
                     /\ Changed \subseteq {<<b, "prev">>, <<a, "next">>,
                                           <<a, "prev">>, <<prev[b], "next">>}
                     /\ prev'[b] = a
                     /\ next'[a] = b
                     /\ prev'[a] = prev[b]
                     /\ next'[prev[b]] = a
               /\ ((DoReplace(a, b) \/ DoReplaceInit(a, b)) /\ a \in linked) =>
                     Changed \subseteq
                         FieldsOf({a, b}) \cup
                             {<<prev[a], "next">>, <<next[a], "prev">>}]_vars

\* C15 witness: list_add has put a node in a ring that has a node that is
\* neither the head, nor the new node, nor the node that was first before.
C15_Witness ==
    /\ ~fault
    /\ last.op = "list_add"
    /\ Len(Fwd(last.b)) = 3
    /\ Bad \notin Range(Fwd(last.b))

----------------------------------------------------------------------------
\* C17: the memory list_add(x, h) and list_add_tail(x, h) leave is the same
\* whatever x.next and x.prev held before the call; and a node that list_del
\* removed and that is inserted again, without INIT_LIST_HEAD, is on the walk
\* from its head, with the ring invariant kept.
C17_AddIgnoresNew ==
    /\ [][\A x \in {last'.a} \cap Nodes, h \in {last'.b} \cap Nodes :
            /\ (DoAdd(x, h) /\ h \in linked) =>
                  \A v1, v2 \in Ptr :
                      LET m == list_add(WithFields(x, v1, v2), x, h)
                      IN m.next = next' /\ m.prev = prev' /\ ~m.fault
            /\ (DoAddTail(x, h) /\ h \in linked) =>
                  \A v1, v2 \in Ptr :
                      LET m == list_add_tail(WithFields(x, v1, v2), x, h)
                      IN m.next = next' /\ m.prev = prev' /\ ~m.fault]_vars
    /\ []((/\ TwoCalls("list_del", "list_add")
              \/ TwoCalls("list_del", "list_add_tail")
           /\ next0[calls[1].a] # LIST_POISON1
           /\ calls[2].b \in linked) =>
              /\ ~fault
              /\ C1_RingInvariant
              /\ calls[2].a \in linked
              /\ calls[2].a \in Range(Fwd(calls[2].b)))

\* C17 witness: a node that list_del removed from a ring was inserted again
\* with list_add, its fields still holding the poison when it was called.
C17_Witness ==
    /\ TwoCalls("list_del", "list_add")
    /\ next0[calls[1].a] # LIST_POISON1
    /\ ~fault
    /\ next[calls[2].b] = calls[2].a
    /\ Len(Fwd(calls[2].b)) >= 2
    /\ Bad \notin Range(Fwd(calls[2].b))

----------------------------------------------------------------------------
\* s in the opposite order
Reverse(s) == [i \in DOMAIN s |-> s[Len(s) + 1 - i]]

\* C18: in every state reached by completed calls within their
\* preconditions, for every node h of a ring: the prev-walk from h is the
\* reverse of the next-walk, the walk has no node twice and only nodes of a
\* ring, h.next == h exactly when h.prev == h, and a node of a ring that is
\* not on the walk from h does not have h on its own walk.  The nodes on the
\* walk are those inserted and not since removed or replaced: list_add and
\* list_add_tail add the new node to them, list_del takes the node away,
\* list_replace and list_replace_init put new for old.
C18_ViewsAgree ==
    /\ [](~fault => \A h \in linked :
             LET f == Fwd(h)
             IN /\ Bad \notin Range(f)
                /\ Bwd(h) = Reverse(f)
                /\ Cardinality(Range(f)) = Len(f)
                /\ Range(f) \subseteq linked \ {h}
                /\ (next[h] = h) <=> (prev[h] = h)
                /\ \A x \in linked \ (Range(f) \cup {h}) :
                      h \notin Range(Fwd(x)))
    /\ [][\A a \in {last'.a} \cap Nodes :
            /\ (Step_list_del(a) /\ a \in linked) =>
                  \A h \in linked \ {a} :
                      Range(FwdOf(next', h)) = Range(Fwd(h)) \ {a}
            /\ \A b \in {last'.b} \cap Nodes :
                  /\ ((DoAdd(a, b) \/ DoAddTail(a, b)) /\ b \in linked) =>
                        Range(FwdOf(next', b)) = Range(Fwd(b)) \cup {a}
                  /\ ((DoReplace(a, b) \/ DoReplaceInit(a, b))
                         /\ a \in linked) =>
                        \A h \in linked \ {a, b} :
                            Range(FwdOf(next', h)) =
                                IF a \in Range(Fwd(h))
                                THEN (Range(Fwd(h)) \ {a}) \cup {b}
                                ELSE Range(Fwd(h))]_vars

\* C18 witness: after a removal a head still has two entries, and its
\* prev-walk is the reverse of its next-walk.
C18_Witness ==
    /\ ~fault
    /\ \E x \in Nodes : Removed(x)
    /\ \E h \in linked :
          /\ Len(Fwd(h)) = 2
          /\ Bwd(h) = Reverse(Fwd(h))
          /\ Fwd(h)[1] # Fwd(h)[2]

----------------------------------------------------------------------------
(* The plain loops.  list_for_each(pos, head) walks the links themselves:   *)
(* it is the loop below with the member at offset 0.  list_for_each_entry   *)
(* walks the structures that hold the links, the member at offset off.      *)
(* The body either leaves the list alone or calls list_del on the current   *)
(* entry's link.                                                            *)

Kinds == {"list_for_each", "list_for_each_entry"}
Bodies == {"none", "list_del"}
Offsets == 0..Offset
PlainPc == {"ptest", "pbody", "pstep", "pdone"}

\* pos = (head)->next  /  pos = list_first_entry(head, typeof(*pos), member)
PStart(h, knd, k, b) ==
    /\ Idle
    /\ Usable(h)
    /\ knd = "list_for_each" => k = 0
    /\ pos' = container_of_at(LoadNext(Mem, h), k)
    /\ fault' = Deref(Mem, h).fault
    /\ pc' = "ptest"
    /\ thead' = h
    /\ ring0' = Fwd(h)
    /\ visited' = <<>>
    /\ kind' = knd
    /\ off' = k
    /\ body' = b
    /\ last' = Call(knd, h, NULL, FALSE)
    /\ UNCHANGED <<next, prev, linked, n>>

\* pos != (head)  /  &pos->member != (head)
PTest ==
    /\ ~fault
    /\ pc = "ptest"
    /\ pc' = IF member_at(pos, off) # thead THEN "pbody" ELSE "pdone"
    /\ UNCHANGED <<next, prev, fault, linked, last, thead, pos, n, ring0,
                   visited, kind, body, off>>

\* the loop body
PBody ==
    /\ ~fault
    /\ pc = "pbody"
    /\ IF body = "list_del"
       THEN Commit(list_del(Mem, member_at(pos, off)),
                   linked \ {member_at(pos, off)},
                   Call("list_del", member_at(pos, off), NULL, FALSE))
       ELSE UNCHANGED <<next, prev, fault, linked, last>>
    /\ visited' = Append(visited, pos)
    /\ pc' = "pstep"
    /\ UNCHANGED <<thead, pos, n, ring0, kind, body, off>>

\* the step of the loop, going along prev
PStep_Prev ==
    /\ ~fault
    /\ pc = "pstep"
    /\ pos' = container_of_at(LoadPrev(Mem, member_at(pos, off)), off)
    /\ fault' = Deref(Mem, member_at(pos, off)).fault
    /\ pc' = "ptest"
    /\ UNCHANGED <<next, prev, linked, last, thead, n, ring0, visited,
                   kind, body, off>>

\* pos = pos->next  /  pos = list_next_entry(pos, member)
PStep ==
    /\ ~fault
    /\ pc = "pstep"
    /\ pos' = container_of_at(LoadNext(Mem, member_at(pos, off)), off)
    /\ fault' = Deref(Mem, member_at(pos, off)).fault
    /\ pc' = "ptest"
    /\ UNCHANGED <<next, prev, linked, last, thead, n, ring0, visited,
                   kind, body, off>>

\* the loop is left and the caller goes on
PExit ==
    /\ ~fault
    /\ pc = "pdone"
    /\ pc' = "idle"
    /\ thead' = NULL
    /\ pos' = NULL
    /\ ring0' = <<>>
    /\ visited' = <<>>
    /\ kind' = "none"
    /\ body' = "none"
    /\ off' = 0
    /\ UNCHANGED <<next, prev, fault, linked, last, n>>

\* a step A of the one thread: no second thread, no call history
Alone1(A) == A /\ UNCHANGED <<next0, prev0, calls, wpc, wop, wprev, wnext>>

\* a program that only traverses: plain loops with either body and the
\* removal-safe loop, over the rings of InitRings
TravNext ==
    \/ \E h \in Nodes, knd \in Kinds, k \in Offsets, b \in Bodies :
          Alone1(PStart(h, knd, k, b))
    \/ Alone1(PTest)
    \/ Alone1(PBody)
    \/ Alone1(PStep)
    \/ Alone1(PExit)
    \/ \E h \in Nodes : Only(LoopStart(h))
    \/ Only(LoopTest)
    \/ Only(LoopBody)
    \/ Only(LoopStep)
    \/ Only(LoopExit)

TravSpec == InitRings /\ [][TravNext]_vars

\* the loop is sequential code: once entered it keeps executing
PLoop == Alone1(PTest) \/ Alone1(PBody) \/ Alone1(PStep)

FairTrav == TravSpec /\ WF_vars(PLoop) /\ WF_vars(Loop)

----------------------------------------------------------------------------
\* a plain loop of kind knd with body b is running over a well-formed ring
Running(knd, b) ==
    /\ pc \in PlainPc
    /\ kind = knd
    /\ body = b
    /\ Bad \notin Range(ring0)

\* s is the first Len(s) elements of t
Prefix(s, t) == Len(s) <= Len(t) /\ \A i \in DOMAIN s : s[i] = t[i]

\* C12: list_for_each with a body that leaves the list alone, over a
\* well-formed ring: no fault; the first cursor is head.next; the entries
\* visited so far are the first entries of the ring in next-order, none
\* twice, never head; the body runs on the next entry of the ring; the loop
\* stops with the cursor equal to head and every entry visited (none on an
\* empty ring); no next or prev field changes, so that the walk from head is
\* afterwards what it was; and the loop, once started, does stop.
C12_RawTraversal ==
    /\ [](Running("list_for_each", "none") =>
             /\ ~fault
             /\ Prefix(visited, ring0)
             /\ thead \notin Range(visited)
             /\ Cardinality(Range(visited)) = Len(visited)
             /\ (pc = "ptest" /\ visited = <<>>) => pos = next[thead]
             /\ pc = "pbody" =>
                   /\ Len(visited) < Len(ring0)
                   /\ pos = ring0[Len(visited) + 1]
             /\ pc = "pdone" =>
                   /\ visited = ring0
                   /\ pos = thead
                   /\ Fwd(thead) = ring0)
    /\ [][(kind' = "list_for_each" /\ body' = "none") =>
             next' = next /\ prev' = prev]_vars
    /\ (Running("list_for_each", "none") ~> pc = "pdone")

\* C12 witness: list_for_each has stopped at head after three entries.
C12_Witness ==
    /\ Running("list_for_each", "none")
    /\ pc = "pdone"
    /\ Len(visited) = 3
    /\ visited = ring0

----------------------------------------------------------------------------
\* C16: for a member at offset k, zero or more, container_of of a link's
\* address is that address minus k, and the address of the member of the
\* structure so found is the link's address again; list_for_each_entry
\* therefore visits, for each link of the ring in order, the structure that
\* holds it, and stops when the address of the cursor's member equals head.
C16_EntryRoundTrip ==
    /\ \A l \in Nodes, k \in Offsets :
          /\ container_of_at(l, k) = l - k
          /\ member_at(container_of_at(l, k), k) = l
    /\ Running("list_for_each_entry", "none") =>
          /\ ~fault
          /\ Len(visited) <= Len(ring0)
          /\ \A i \in DOMAIN visited :
                /\ visited[i] = ring0[i] - off
                /\ member_at(visited[i], off) = ring0[i]
          /\ pc = "pbody" =>
                /\ Len(visited) < Len(ring0)
                /\ member_at(pos, off) = ring0[Len(visited) + 1]
          /\ pc = "pdone" =>
                /\ Len(visited) = Len(ring0)
                /\ member_at(pos, off) = thead
                /\ pos = thead - off

\* C16 witness: list_for_each_entry, the member at an offset above zero, has
\* stopped after two entries.
C16_Witness ==
    /\ Running("list_for_each_entry", "none")
    /\ off > 0
    /\ pc = "pdone"
    /\ Len(visited) = 2
    /\ pos # thead

----------------------------------------------------------------------------
\* a plain loop whose body calls list_del on the current entry is running
\* over a well-formed ring with entries
PlainDel ==
    /\ pc \in PlainPc
    /\ kind \in Kinds
    /\ body = "list_del"
    /\ Bad \notin Range(ring0)
    /\ ring0 # <<>>

\* C20: in list_for_each and list_for_each_entry with a body that calls
\* list_del on the current entry, the step reads the removed entry's next
\* field, which holds LIST_POISON1, and the cursor's link becomes
\* LIST_POISON1, not the next entry; the loop never stops at head, its second
\* body faults, and the entries after the first stay in the ring.  In
\* list_for_each_entry_safe the step reads the next field of n's link, which
\* is not the removed entry, and does not fault.
C20_OnlySafeSurvives ==
    /\ [](PlainDel =>
             /\ pc # "pdone"
             /\ (pc = "pstep" /\ ~fault) =>
                   /\ visited = <<pos>>
                   /\ member_at(pos, off) = ring0[1]
                   /\ next[member_at(pos, off)] = LIST_POISON1
             /\ (pc \in {"ptest", "pbody"} /\ visited # <<>>) =>
                   member_at(pos, off) = LIST_POISON1
             /\ Len(visited) <= 2
             /\ Len(visited) = 2 => fault
             /\ \A i \in 2..Len(ring0) : ring0[i] \in linked)
    /\ [][/\ (PlainDel /\ PStep) =>
                 /\ member_at(pos', off) = LIST_POISON1
                 /\ (Len(ring0) >= 2 => member_at(pos', off) # ring0[2])
          /\ (LoopStep /\ Bad \notin Range(ring0)) =>
                 /\ member(n) # last.a
                 /\ last.a = member(pos)
                 /\ last.a \notin linked
                 /\ next[member(n)] # LIST_POISON1
                 /\ ~fault']_vars

\* C20 witness: a plain loop removed the first of three entries, took the
\* poison for its cursor and faulted in its second body; the other two
\* entries are still in the ring.
C20_Witness ==
    /\ PlainDel
    /\ fault
    /\ Len(visited) = 2
    /\ Len(ring0) = 3
    /\ Fwd(thead) = <<ring0[2], ring0[3]>>

----------------------------------------------------------------------------
(* Two threads on one memory, nothing in the header orders them.  The       *)
(* reader runs list_for_each with a body that leaves the list alone; each   *)
(* of its steps reads at most one pointer.  The writer makes one call,      *)
(* list_add, list_add_tail or list_del, one pointer read or one pointer     *)
(* store per step, the stores in the order of the source.                   *)

\* the i-th store of __list_add(new_node, prev_node, next_node), published
\* first: prev_node->next = new_node before the new node's fields are set
AddStore_PublishFirst(i, m, new_node, prev_node, next_node) ==
    CASE i = 1 -> StoreNext(m, prev_node, new_node)
      [] i = 2 -> StorePrev(m, next_node, new_node)
      [] i = 3 -> StoreNext(m, new_node, next_node)
      [] i = 4 -> StorePrev(m, new_node, prev_node)

\* the i-th store of __list_add(new_node, prev_node, next_node)
AddStore(i, m, new_node, prev_node, next_node) ==
    CASE i = 1 -> StorePrev(m, next_node, new_node)
      [] i = 2 -> StoreNext(m, new_node, next_node)
      [] i = 3 -> StorePrev(m, new_node, prev_node)
      [] i = 4 -> StoreNext(m, prev_node, new_node)

\* the stores of list_del with entry_node's own fields left as they were
DelStore_NoPoison(i, m, entry_node, prev_node, next_node) ==
    CASE i = 1 -> StorePrev(m, next_node, prev_node)
      [] i = 2 -> StoreNext(m, prev_node, next_node)
      [] i = 3 -> m
      [] i = 4 -> m

\* the i-th store of list_del(entry_node), prev_node and next_node being
\* the values read from entry_node->prev and entry_node->next
DelStore(i, m, entry_node, prev_node, next_node) ==
    CASE i = 1 -> StorePrev(m, next_node, prev_node)
      [] i = 2 -> StoreNext(m, prev_node, next_node)
      [] i = 3 -> StoreNext(m, entry_node, LIST_POISON1)
      [] i = 4 -> StorePrev(m, entry_node, LIST_POISON2)

Stores == 1..4
StorePc == [i \in Stores |-> <<"s1", "s2", "s3", "s4">>[i]]
AfterStore == [i \in Stores |-> <<"s2", "s3", "s4", "done">>[i]]

readervars == <<last, pc, thead, pos, n, ring0, visited, kind, body, off>>

\* list_add(new_node, head_node): the argument head_node->next is read
WAddStart(x, h) ==
    /\ ~fault
    /\ wpc = "idle"
    /\ x # h
    /\ Insertable(x)
    /\ Usable(h)
    /\ wop' = Call("list_add", x, h, FALSE)
    /\ wprev' = h
    /\ wnext' = LoadNext(Mem, h)
    /\ fault' = Deref(Mem, h).fault
    /\ wpc' = "s1"
    /\ UNCHANGED <<next, prev, linked, readervars, histvars>>

\* list_add_tail(new_node, head_node): the argument head_node->prev is read
WAddTailStart(x, h) ==
    /\ ~fault
    /\ wpc = "idle"
    /\ x # h
    /\ Insertable(x)
    /\ Usable(h)
    /\ wop' = Call("list_add_tail", x, h, FALSE)
    /\ wprev' = LoadPrev(Mem, h)
    /\ wnext' = h
    /\ fault' = Deref(Mem, h).fault
    /\ wpc' = "s1"
    /\ UNCHANGED <<next, prev, linked, readervars, histvars>>

\* one store of __list_add; the call returns after the fourth
WAddStore(i) ==
    /\ ~fault
    /\ wpc = StorePc[i]
    /\ wop.op \in {"list_add", "list_add_tail"}
    /\ LET m == AddStore(i, Mem, wop.a, wprev, wnext)
       IN /\ next' = m.next
          /\ prev' = m.prev
          /\ fault' = m.fault
          /\ linked' = IF i = 4 /\ ~m.fault THEN linked \cup {wop.a}
                       ELSE linked
    /\ wpc' = AfterStore[i]
    /\ UNCHANGED <<wop, wprev, wnext, readervars, histvars>>

\* list_del(entry_node): the argument entry_node->prev is read
WDelStart(x) ==
    /\ ~fault
    /\ wpc = "idle"
    /\ Usable(x)
    /\ wop' = Call("list_del", x, NULL, FALSE)
    /\ wprev' = LoadPrev(Mem, x)
    /\ fault' = Deref(Mem, x).fault
    /\ wpc' = "r2"
    /\ UNCHANGED <<next, prev, linked, wnext, readervars, histvars>>

\* list_del: the argument entry_node->next is read.  No other thread
\* stores into entry_node, so the order of the two reads makes no difference.
WDelRead ==
    /\ ~fault
    /\ wpc = "r2"
    /\ wnext' = LoadNext(Mem, wop.a)
    /\ fault' = Deref(Mem, wop.a).fault
    /\ wpc' = "s1"
    /\ UNCHANGED <<next, prev, linked, wop, wprev, readervars, histvars>>

\* one store of list_del; the call returns after the fourth
WDelStore(i) ==
    /\ ~fault
    /\ wpc = StorePc[i]
    /\ wop.op = "list_del"
    /\ LET m == DelStore(i, Mem, wop.a, wprev, wnext)
       IN /\ next' = m.next
          /\ prev' = m.prev
          /\ fault' = m.fault
          /\ linked' = IF i = 4 /\ ~m.fault THEN linked \ {wop.a}
                       ELSE linked
    /\ wpc' = AfterStore[i]
    /\ UNCHANGED <<wop, wprev, wnext, readervars, histvars>>

\* a reader that has run its body on more entries than there are nodes goes
\* round a ring that its head is no longer in; it is followed no further
MaxVisits == NumNodes + 1

\* a step A of the reader: the writer's registers stay
Reader(A) == A /\ UNCHANGED <<histvars, wvars>>

ConcNext ==
    \/ \E h \in Nodes : Reader(PStart(h, "list_for_each", 0, "none"))
    \/ Reader(PTest)
    \/ Reader(PBody) /\ Len(visited) < MaxVisits
    \/ Reader(PStep)
    \/ Reader(PExit)
    \/ \E x, h \in Nodes : WAddStart(x, h)
    \/ \E x, h \in Nodes : WAddTailStart(x, h)
    \/ \E i \in Stores : WAddStore(i)
    \/ \E x \in Nodes : WDelStart(x)
    \/ WDelRead
    \/ \E i \in Stores : WDelStore(i)

ConcSpec == InitRings /\ [][ConcNext]_vars

\* the reader is sequential code: once in the loop it keeps executing,
\* whatever the writer does
ReaderLoop ==
    \/ Reader(PTest)
    \/ Reader(PBody) /\ Len(visited) < MaxVisits
    \/ Reader(PStep)

FairConc == ConcSpec /\ WF_vars(ReaderLoop)

----------------------------------------------------------------------------
\* the memory before the writer's call
Mem0 == [next |-> next0, prev |-> prev0, fault |-> FALSE]

\* the entries of the reader's ring before the writer's call
Old == FwdOf(next0, thead)

\* the reader is in list_for_each over a ring whose head is not the node the
\* writer was given
Reading ==
    /\ Running("list_for_each", "none")
    /\ Bad \notin Range(Old)
    /\ thead # wop.a

\* the writer is in, or has returned from, list_del of a node that was in a
\* ring with other nodes
Deleting ==
    /\ wop.op = "list_del"
    /\ next0[wop.a] \in Nodes \ {wop.a}

\* C14: list_for_each interleaved, one pointer read or store at a time, with
\* list_del(x) by another thread: from the second store on, a cursor that is
\* x is a node that is not on the walk from head; a step from x after the
\* third store makes the cursor LIST_POISON1; with that cursor the loop does
\* not stop at head, its next step faults, and no entry that came after x was
\* visited.  (The four stores together are list_del.)
C14_TraversalUnsafe ==
    /\ []((Deleting /\ Reading) =>
             /\ (pos = wop.a /\ wpc \in {"s3", "s4", "done"}) =>
                   wop.a \notin Range(Fwd(thead))
             /\ pos = LIST_POISON1 =>
                   /\ pc # "pdone"
                   /\ wop.a \in Range(visited)
                   /\ \A j \in DOMAIN Old :
                         (wop.a \in Range(Old) /\ j > IndexOf(Old, wop.a)) =>
                             Old[j] \notin Range(visited)
             /\ (wpc = "done" /\ ~fault) =>
                   LET m == list_del(Mem0, wop.a)
                   IN next = m.next /\ prev = m.prev)
    /\ [][(Deleting /\ Reading /\ PStep) =>
             /\ (pos = wop.a /\ wpc \in {"s4", "done"}) =>
                   pos' = LIST_POISON1
             /\ pos = LIST_POISON1 => fault']_vars

\* C14 witness: the reader stepped from the node the writer was removing,
\* ran its body on LIST_POISON1 and faulted, with an entry of the ring never
\* visited and head never reached.
C14_Witness ==
    /\ Deleting
    /\ Reading
    /\ fault
    /\ pos = LIST_POISON1
    /\ Len(Old) >= 2
    /\ wop.a = Old[1]
    /\ Old[2] \notin Range(visited)
    /\ Old[2] \in Range(Fwd(thead))

----------------------------------------------------------------------------
\* the writer is in, or has returned from, list_add or list_add_tail to a
\* head that is in a ring
Inserting ==
    /\ wop.op \in {"list_add", "list_add_tail"}
    /\ wop.b \in linked

\* C19: list_for_each interleaved, one pointer read or store at a time and
\* the stores in the order of the source, with one list_add(x, h) or
\* list_add_tail(x, h) by another thread: the reader does not fault, its
\* cursor is never LIST_POISON1 or another value that is no node, the
\* entries it visits other than x are the first entries of the ring as it
\* was before the call, in order, x is visited at most once, the loop stops
\* with the cursor at head after all of them, and it does stop.  (The four
\* stores together are __list_add.)
C19_InsertTolerated ==
    /\ []((Inserting /\ Reading) =>
             /\ ~fault
             /\ pos \in Nodes
             /\ Range(visited) \subseteq Nodes
             /\ Prefix(Without(visited, wop.a), Old)
             /\ Len(visited) - Len(Without(visited, wop.a)) <= 1
             /\ thead \notin Range(visited)
             /\ pc = "pdone" =>
                   /\ Without(visited, wop.a) = Old
                   /\ pos = thead
             /\ wpc = "done" =>
                   LET m == IF wop.op = "list_add"
                            THEN list_add(Mem0, wop.a, wop.b)
                            ELSE list_add_tail(Mem0, wop.a, wop.b)
                   IN next = m.next /\ prev = m.prev)
    /\ ((Inserting /\ Reading) ~> pc = "pdone")

\* C19 witness: a reader that had started before the new node could be
\* reached has visited it and two others and stopped at head.
C19_Witness ==
    /\ Inserting
    /\ Reading
    /\ pc = "pdone"
    /\ wop.a \notin Range(ring0)
    /\ wop.a \in Range(visited)
    /\ Len(visited) = 3

====
